---- MODULE Spec2Model ----
(***************************************************************************)
(* Model of the Ivory parts scraper: the category crawl with pagination    *)
(* and de-duplication (scraper.py scrape_category / scrape_all), the       *)
(* batched LLM enrichment (enrich_products_with_llm) and the price-ratio   *)
(* calculation (calculate_price_ratios, verify_prices.py                   *)
(* recalculate_ratios).                                                    *)
(*                                                                         *)
(* Numbers are scaled integers: the exchange rate is held in units of      *)
(* 1e-4 (get_exchange_rate rounds it to 4 decimals), price_usd in cents    *)
(* and price_ratio in hundredths.  round(x, 2) is modelled on the exact    *)
(* decimal value with ties to even.                                        *)
(***************************************************************************)
EXTENDS Integers, Sequences, FiniteSets, TLC

(***************************************************************************)
(* JSON / Python values.  Every optional field is a tagged record so that  *)
(* a missing dictionary key, None, a number and a string stay apart.       *)
(***************************************************************************)
Absent == [k |-> "absent", v |-> 0]

Null == [k |-> "null", v |-> 0]

Num(n) == [k |-> "num", v |-> n]

Str(n) == [k |-> "str", v |-> n]

\* dict.get(key): a missing key reads as None
Get(x) == IF x = Absent THEN Null ELSE x

\* Python truthiness of a value: None, 0 and "" are false
Truthy(x) == (x.k = "num" /\ x.v # 0) \/ (x.k = "str" /\ x.v # 0)

\* round(n / d) to an integer for d # 0, ties to even
RoundHalfEven(n, d) ==
    LET nn == IF d < 0 THEN -n ELSE n
        dd == IF d < 0 THEN -d ELSE d
        q == nn \div dd
        r == nn % dd
    IN  IF 2 * r < dd THEN q
        ELSE IF 2 * r > dd THEN q + 1
        ELSE IF q % 2 = 0 THEN q ELSE q + 1

\* LLM settings
LLM_BATCH_SIZE == 5

\* verify_prices.py batch size
BATCH_SIZE == 10

(***************************************************************************)
(* Price Ratio Calculator                                                  *)
(***************************************************************************)
\* `us_rrp > 0` raises TypeError when the oracle supplied a non-empty string
CalcRaises(p) ==
    /\ Truthy(Get(p.price))
    /\ Truthy(Get(p.us_rrp_usd))
    /\ Get(p.us_rrp_usd).k = "str"

\* mutant: the ratio branch is taken for any truthy reference price
RatioGuardAnyRrp(p) ==
    /\ Truthy(Get(p.price))
    /\ Truthy(Get(p.us_rrp_usd))
    /\ Get(p.us_rrp_usd).k = "num"

\* the guard of line 236: price_ils and us_rrp and us_rrp > 0
RatioGuard(p) ==
    /\ Truthy(Get(p.price))
    /\ Truthy(Get(p.us_rrp_usd))
    /\ Get(p.us_rrp_usd).k = "num"
    /\ Get(p.us_rrp_usd).v > 0

\* mutant: the converted price is also stored under the "price" key
CalcProductInPlace(p, rate) ==
    LET price_ils == Get(p.price)
        us_rrp == Get(p.us_rrp_usd)
        usd == Num(RoundHalfEven(price_ils.v * rate, 100))
    IN  IF RatioGuard(p)
        THEN [p EXCEPT !.price = usd, !.price_usd = usd,
                       !.price_ratio =
                           Num(RoundHalfEven(price_ils.v * rate, 100 * us_rrp.v))]
        ELSE [p EXCEPT !.price = IF Truthy(price_ils) THEN usd ELSE @,
                       !.price_usd = IF Truthy(price_ils) THEN usd ELSE Null,
                       !.price_ratio = Null]

\* one iteration of the loop of calculate_price_ratios
CalcProduct(p, rate) ==
    LET price_ils == Get(p.price)
        us_rrp == Get(p.us_rrp_usd)
    IN  IF RatioGuard(p)
        THEN [p EXCEPT !.price_usd = Num(RoundHalfEven(price_ils.v * rate, 100)),
                       !.price_ratio =
                           Num(RoundHalfEven(price_ils.v * rate, 100 * us_rrp.v))]
        ELSE [p EXCEPT !.price_usd = IF Truthy(price_ils)
                                     THEN Num(RoundHalfEven(price_ils.v * rate, 100))
                                     ELSE Null,
                       !.price_ratio = Null]

\* calculate_price_ratios(products, exchange_rate), when no iteration raises
CalculatePriceRatios(products, rate) ==
    [i \in 1..Len(products) |-> CalcProduct(products[i], rate)]

\* mutant: only price_usd is recalculated
RecalcProductUsdOnly(p, rate) ==
    [p EXCEPT !.price_usd = IF Truthy(Get(p.price))
                            THEN Num(RoundHalfEven(Get(p.price).v * rate, 100))
                            ELSE Null,
              !.price_ratio = Get(p.price_ratio)]

\* one iteration of the loop of verify_prices.recalculate_ratios
RecalcProduct(p, rate) ==
    LET price_ils == Get(p.price)
        us_rrp == Get(p.us_rrp_usd)
    IN  IF RatioGuard(p)
        THEN [p EXCEPT !.price_usd = Num(RoundHalfEven(price_ils.v * rate, 100)),
                       !.price_ratio =
                           Num(RoundHalfEven(price_ils.v * rate, 100 * us_rrp.v))]
        ELSE [p EXCEPT !.price_usd = IF Truthy(price_ils)
                                     THEN Num(RoundHalfEven(price_ils.v * rate, 100))
                                     ELSE Null,
                       !.price_ratio = Null]

\* verify_prices.recalculate_ratios(products, exchange_rate)
RecalculateRatios(products, rate) ==
    [i \in 1..Len(products) |-> RecalcProduct(products[i], rate)]

\* some iteration of the loop raises
AnyCalcRaises(products) == \E i \in 1..Len(products) : CalcRaises(products[i])

(***************************************************************************)
(* Listing Extractor                                                       *)
(***************************************************************************)
\* one span.price node: does it (or an ancestor) carry class eilatprice, and
\* its text after the separators are stripped (Num: int() parses it,
\* Str: int() raises ValueError)
PriceNode(eilat, text) == [eilat |-> eilat, text |-> text]

\* mutant: the class eilatprice is not looked at
RECURSIVE FirstParsingPrice(_)
FirstParsingPrice(nodes) ==
    IF nodes = <<>> THEN Null
    ELSE IF Head(nodes).text.k = "num"
         THEN Head(nodes).text
         ELSE FirstParsingPrice(Tail(nodes))

\* the loop over all_prices: the first node that is not an Eilat price and
\* whose text parses
RECURSIVE FirstRegularPrice(_)
FirstRegularPrice(nodes) ==
    IF nodes = <<>> THEN Null
    ELSE IF ~Head(nodes).eilat /\ Head(nodes).text.k = "num"
         THEN Head(nodes).text
         ELSE FirstRegularPrice(Tail(nodes))

\* a freshly extracted product: the enrichment and derived keys do not exist
RawProduct(id, name, price) ==
    [id |-> id, name |-> name, price |-> price,
     manufacturer |-> Absent, part_number |-> Absent,
     description_en |-> Absent, us_rrp_usd |-> Absent,
     price_usd |-> Absent, price_ratio |-> Absent]

\* extract_product_data(product_element): <<>> stands for None.  id 0 is
\* the empty data-product-id.
ExtractProductData(elem) ==
    IF ~elem.anchor THEN <<>>
    ELSE IF elem.id = 0 THEN <<>>
    ELSE <<RawProduct(elem.id, elem.name, FirstRegularPrice(elem.prices))>>

SetMax(S) == CHOOSE m \in S : \A n \in S : n <= m

\* get_pagination_info(soup): page= parameters of links and numeric link
\* texts of the pagination containers, at least 1
GetPaginationInfo(doc) == SetMax({1} \cup doc.page_params \cup doc.paging_texts)

\* mutant: a later copy of a known id replaces the stored product
RECURSIVE ProcessElementsOverwrite(_, _, _)
ProcessElementsOverwrite(elems, products, seen) ==
    IF elems = <<>> THEN [products |-> products, seen |-> seen]
    ELSE LET data == ExtractProductData(Head(elems))
         IN  IF data = <<>>
             THEN ProcessElementsOverwrite(Tail(elems), products, seen)
             ELSE IF data[1].id \in seen
             THEN ProcessElementsOverwrite(Tail(elems),
                      [i \in 1..Len(products) |->
                          IF products[i].id = data[1].id THEN data[1] ELSE products[i]],
                      seen)
             ELSE ProcessElementsOverwrite(Tail(elems), Append(products, data[1]),
                                           seen \cup {data[1].id})

\* mutant: the seen-id test is missing
RECURSIVE ProcessElementsNoDedup(_, _, _)
ProcessElementsNoDedup(elems, products, seen) ==
    IF elems = <<>> THEN [products |-> products, seen |-> seen]
    ELSE LET data == ExtractProductData(Head(elems))
         IN  IF data # <<>>
             THEN ProcessElementsNoDedup(Tail(elems), Append(products, data[1]),
                                         seen \cup {data[1].id})
             ELSE ProcessElementsNoDedup(Tail(elems), products, seen)

\* the loop over the .entry-wrapper elements of one page (lines 396-401)
RECURSIVE ProcessElements(_, _, _)
ProcessElements(elems, products, seen) ==
    IF elems = <<>> THEN [products |-> products, seen |-> seen]
    ELSE LET data == ExtractProductData(Head(elems))
         IN  IF data # <<>> /\ data[1].id \notin seen
             THEN ProcessElements(Tail(elems), Append(products, data[1]),
                                  seen \cup {data[1].id})
             ELSE ProcessElements(Tail(elems), products, seen)

\* what the extractor returns for the elements of one page, in document
\* order, before de-duplication
RECURSIVE ExtractAll(_)
ExtractAll(elems) ==
    IF elems = <<>> THEN <<>>
    ELSE ExtractProductData(Head(elems)) \o ExtractAll(Tail(elems))

(***************************************************************************)
(* The site: what fetch_page returns for a category page when it succeeds  *)
(***************************************************************************)
\* largest page number the first listing page links to
MaxPage == 3

\* number of product elements on a listing page of the paginated category
PageLen == 3

Element(anchor, id, name, prices) ==
    [anchor |-> anchor, id |-> id, name |-> name, prices |-> prices]

Document(elems, page_params, paging_texts) ==
    [elems |-> elems, page_params |-> page_params, paging_texts |-> paging_texts]

\* no element is being extracted on its own
NoElement == Element(FALSE, 0, 0, <<>>)

\* page p of the paginated category: ids advance by 2 from page to page, so
\* the site repeats products across pages; every element carries an Eilat
\* price before its regular price; names and prices differ from page to page.
\* Page 1 links up to page MaxPage, the pages in between link one page
\* further, and the last page links only to the pages before it
SsdPage(p) ==
    Document([k \in 1..PageLen |->
                 Element(TRUE, (p - 1) * 2 + k, 10 * p + k,
                         <<PriceNode(TRUE, Num(1)),
                           PriceNode(FALSE, Num(8 + (p - 1) * 2 + k + 100 * (p - 1)))>>)],
             IF p = 1 THEN 2..MaxPage
             ELSE IF p < MaxPage THEN 1..(MaxPage + 1)
             ELSE 1..(MaxPage - 1),
             {})

\* a single-page category with malformed elements, a zero price, a missing
\* price and a product listed twice
RamPage ==
    Document(<<Element(FALSE, 20, 1, <<>>),
               Element(TRUE, 0, 2, <<PriceNode(FALSE, Num(5))>>),
               Element(TRUE, 21, 3, <<PriceNode(TRUE, Num(5)),
                                      PriceNode(FALSE, Str(1)),
                                      PriceNode(FALSE, Num(0))>>),
               Element(TRUE, 22, 4, <<PriceNode(TRUE, Num(7))>>),
               Element(TRUE, 21, 5, <<PriceNode(FALSE, Num(50))>>),
               Element(TRUE, 23, 6, <<PriceNode(FALSE, Num(11))>>)>>,
             {}, {1})

EmptyPage == Document(<<>>, {}, {})

\* the documents a successful fetch of page p of a category may return
PageDocs(cat_key, p) ==
    IF cat_key = "ssd" THEN {SsdPage(p)} ELSE {RamPage, EmptyPage}

\* get_category_map(): key -> group (description and link are not modelled)
cat_map == [ssd |-> [group |-> "Storage"], ram |-> [group |-> "Memory"]]

\* the --category selections of a run; "bogus" is not in the registry
CategorySelections == {<<"ssd", "ram">>, <<"ram", "bogus", "ssd">>}

\* exchange rates in units of 1e-4: the fallback 0.27 and a fetched 0.2718
ExchangeRates == {2700, 2718}

(***************************************************************************)
(* Oracle replies and the Enrichment Batcher                               *)
(***************************************************************************)
\* one object of the reply array; a field that is Absent is a missing key
Entry(index, manufacturer, part_number, description_en, us_rrp_usd) ==
    [index |-> index, manufacturer |-> manufacturer, part_number |-> part_number,
     description_en |-> description_en, us_rrp_usd |-> us_rrp_usd]

\* raises: generate_content raised; fence: "none", "json" (the text is
\* wrapped in ``` or ```json) or "other" (wrapped in ``` with another language
\* tag); body: what is inside the fence, "invalid" (not JSON), "object" (JSON
\* that is not an array of objects) or "array"
Reply(raises, fence, body, items) ==
    [raises |-> raises, fence |-> fence, body |-> body, items |-> items]

\* lines 202-206: the two re.sub calls remove ``` / ```json and the closing
\* fence; any other language tag stays in the text and json.loads raises
JsonLoads(reply) == IF reply.fence = "other" THEN "invalid" ELSE reply.body

ReplyRaise == Reply(TRUE, "none", "invalid", <<>>)

ReplyText == Reply(FALSE, "none", "invalid", <<>>)

ReplyObject == Reply(FALSE, "json", "object", <<>>)

\* a valid first entry followed by an entry without "index"
ReplyNoIndex ==
    Reply(FALSE, "none", "array",
          <<Entry(Num(1), Str(1), Str(2), Str(3), Num(2)),
            Entry(Absent, Str(1), Str(2), Str(3), Num(2))>>)

ReplyFull ==
    Reply(FALSE, "none", "array",
          [i \in 1..LLM_BATCH_SIZE |->
              Entry(Num(i), Str(i), Str(10 + i), Str(20 + i), Num(i + 1))])

\* inside a ```json fence; index 2 twice, an index past the batch, a string index, nulls,
\* a missing key and a zero and a negative price
ReplyPartial ==
    Reply(FALSE, "json", "array",
          <<Entry(Num(2), Str(7), Str(8), Str(9), Num(3)),
            Entry(Num(LLM_BATCH_SIZE + 1), Str(1), Str(2), Str(3), Num(4)),
            Entry(Num(2), Null, Absent, Str(4), Num(0)),
            Entry(Str(1), Str(1), Str(2), Str(3), Num(5)),
            Entry(Num(0), Str(1), Str(2), Str(3), Num(5)),
            Entry(Num(3), Str(5), Null, Null, Num(-1))>>)

\* the reference price comes back as a string
ReplyStrPrice ==
    Reply(FALSE, "none", "array", <<Entry(Num(1), Str(1), Str(2), Str(3), Str(1))>>)

\* a well-formed array behind a fence the regular expression does not strip
ReplyOtherFence == Reply(FALSE, "other", "array", ReplyFull.items)

\* the replies of a run: a transport failure, undecodable text, an array of
\* the wrong shape, and three well-formed arrays
Replies == {ReplyRaise, ReplyOtherFence, ReplyNoIndex, ReplyFull, ReplyPartial,
            ReplyStrPrice}

\* does the try block of enrich_products_with_llm end in an except clause
ReplyFails(reply) ==
    \/ reply.raises
    \/ JsonLoads(reply) # "array"
    \/ \E j \in 1..Len(reply.items) : reply.items[j].index = Absent

\* idx in enrichment_map
InEnrichmentMap(items, idx) == \E j \in 1..Len(items) : items[j].index = Num(idx)

\* mutant: the first entry of an index is kept
EnrichmentMapFirst(items, idx) ==
    items[CHOOSE j \in 1..Len(items) :
              /\ items[j].index = Num(idx)
              /\ \A l \in 1..(j - 1) : items[l].index # Num(idx)]

\* enrichment_map[idx]: the dict comprehension keeps the last entry of a key
EnrichmentMap(items, idx) ==
    items[CHOOSE j \in 1..Len(items) :
              /\ items[j].index = Num(idx)
              /\ \A l \in (j + 1)..Len(items) : items[l].index # Num(idx)]

\* lines 214-218: the four assignments from one entry
ApplyEntry(product, e) ==
    [product EXCEPT !.manufacturer = Get(e.manufacturer),
                    !.part_number = Get(e.part_number),
                    !.description_en = Get(e.description_en),
                    !.us_rrp_usd = Get(e.us_rrp_usd)]

\* mutant: entries are applied in reply order until one is malformed
EnrichPartialOnFailure(gemini_client, products, reply) ==
    IF ~gemini_client \/ products = <<>> THEN products
    ELSE IF reply.raises \/ JsonLoads(reply) # "array" THEN products
    ELSE [i \in 1..Len(products) |->
             IF \E j \in 1..Len(reply.items) :
                    /\ reply.items[j].index = Num(i)
                    /\ \A l \in 1..j : reply.items[l].index # Absent
             THEN ApplyEntry(products[i],
                     reply.items[CHOOSE j \in 1..Len(reply.items) :
                                    /\ reply.items[j].index = Num(i)
                                    /\ \A l \in 1..j : reply.items[l].index # Absent])
             ELSE products[i]]

\* mutant: entries are matched by 0-based position
EnrichOffByOne(gemini_client, products, reply) ==
    IF ~gemini_client \/ products = <<>> THEN products
    ELSE IF ReplyFails(reply) THEN products
    ELSE [i \in 1..Len(products) |->
             IF InEnrichmentMap(reply.items, i - 1)
             THEN ApplyEntry(products[i], EnrichmentMap(reply.items, i - 1))
             ELSE products[i]]

\* enrich_products_with_llm(gemini_client, products, category_hint), given
\* the oracle's reply to the prompt
EnrichProductsWithLlm(gemini_client, products, reply) ==
    IF ~gemini_client \/ products = <<>> THEN products
    ELSE IF ReplyFails(reply) THEN products
    ELSE [i \in 1..Len(products) |->
             IF InEnrichmentMap(reply.items, i)
             THEN ApplyEntry(products[i], EnrichmentMap(reply.items, i))
             ELSE products[i]]

(***************************************************************************)
(* State                                                                   *)
(***************************************************************************)
VARIABLES
    pc,                   \* position in the run
    categories_to_scrape, \* scrape_all: the selected category keys
    cat_i,                \* scrape_all: position of the loop in that list
    results,              \* scrape_all: cat_key -> result of scrape_category
    exchange_rate,        \* the rate of the run, in units of 1e-4
    gemini_model,         \* is a Gemini client available
    all_products,         \* scrape_category: the product list
    seen_ids,             \* scrape_category: ids already stored
    max_page,             \* scrape_category: from page 1
    page_num,             \* scrape_category: next page to fetch
    enriched_products,    \* scrape_category: output of the batches so far
    batch_i,              \* scrape_category: offset of the next batch
    fetch_log,            \* history: every fetch_page call of the run
    oracle_log,           \* history: every oracle call of the run
    stream,               \* history: products extracted in this category
    prev_products,        \* history: the list before the operation observed
    export,               \* the file ivory_products_latest.json
    verified,             \* the file ivory_products_verified.json
    data,                 \* verify_prices.main: the loaded snapshot
    summary,              \* validate_json: the counts it printed
    trace,                \* history: oracle calls, sleeps and recalculations
    product_element       \* extract_product_data: the element it is given

vars == <<pc, categories_to_scrape, cat_i, results, exchange_rate, gemini_model,
          all_products, seen_ids, max_page, page_num, enriched_products, batch_i,
          fetch_log, oracle_log, stream, prev_products, export, verified, data,
          summary, trace, product_element>>

run_vars == <<categories_to_scrape, exchange_rate, gemini_model, product_element>>

crawl_vars == <<all_products, seen_ids, max_page, page_num, stream>>

enrich_vars == <<enriched_products, batch_i, oracle_log>>

io_vars == <<export, verified, data, summary>>

\* a file that does not exist yet
NoFile == [written |-> FALSE]

\* nothing printed yet
NoSummary == [printed |-> FALSE]

\* one event of the run: a call of the oracle, a time.sleep, or a call of
\* recalculate_ratios
Event(ev, key) == [ev |-> ev, cat |-> key]

cat_key == categories_to_scrape[cat_i]

(***************************************************************************)
(* scrape_all and scrape_category                                          *)
(***************************************************************************)
Init ==
    /\ pc = "scrape_all"
    /\ categories_to_scrape \in CategorySelections
    /\ cat_i = 1
    /\ results = <<>>
    /\ exchange_rate \in ExchangeRates
    /\ gemini_model \in BOOLEAN
    /\ all_products = <<>>
    /\ seen_ids = {}
    /\ max_page = 1
    /\ page_num = 1
    /\ enriched_products = <<>>
    /\ batch_i = 0
    /\ fetch_log = <<>>
    /\ oracle_log = <<>>
    /\ stream = <<>>
    /\ prev_products = <<>>
    /\ export = NoFile
    /\ verified = NoFile
    /\ data = NoFile
    /\ summary = NoSummary
    /\ trace = <<>>
    /\ product_element = NoElement

\* one fetch_page call: the page asked for, whether a document came back,
\* what the extractor found in it and the page count it advertises
FetchEntry(key, page, ok, extracted, pages) ==
    [cat |-> key, page |-> page, ok |-> ok, extracted |-> extracted, max_page |-> pages]

\* results[cat_key] = result
SetResult(key, result) ==
    [k \in DOMAIN results \cup {key} |-> IF k = key THEN result ELSE results[k]]

\* lines 447-450: a key that is not in the registry is reported and skipped
SkipUnknownCategory ==
    /\ pc = "scrape_all"
    /\ cat_i <= Len(categories_to_scrape)
    /\ cat_key \notin DOMAIN cat_map
    /\ cat_i' = cat_i + 1
    /\ UNCHANGED <<io_vars, trace, pc, results, run_vars, crawl_vars, enrich_vars, prev_products,
                   fetch_log>>

\* mutant: a failed first page ends the whole run
FetchFirstPageFailAbort ==
    /\ pc = "scrape_all"
    /\ cat_i <= Len(categories_to_scrape)
    /\ cat_key \in DOMAIN cat_map
    /\ fetch_log' = Append(fetch_log, FetchEntry(cat_key, 1, FALSE, <<>>, 0))
    /\ all_products' = <<>>
    /\ seen_ids' = {}
    /\ stream' = <<>>
    /\ prev_products' = <<>>
    /\ results' = SetResult(cat_key,
                      [group |-> cat_map[cat_key].group, product_count |-> 0,
                       products |-> <<>>, error |-> TRUE])
    /\ pc' = "returned"
    /\ trace' = Append(trace, Event("sleep", cat_key))
    /\ UNCHANGED <<io_vars, cat_i, run_vars, max_page, page_num, enrich_vars>>

\* lines 363-376 and 452-457: the fetch of page 1 fails; scrape_category
\* returns the error result and scrape_all stores it and moves on
FetchFirstPageFail ==
    /\ pc = "scrape_all"
    /\ cat_i <= Len(categories_to_scrape)
    /\ cat_key \in DOMAIN cat_map
    /\ fetch_log' = Append(fetch_log, FetchEntry(cat_key, 1, FALSE, <<>>, 0))
    /\ all_products' = <<>>
    /\ seen_ids' = {}
    /\ stream' = <<>>
    /\ prev_products' = <<>>
    /\ results' = SetResult(cat_key,
                      [group |-> cat_map[cat_key].group, product_count |-> 0,
                       products |-> <<>>, error |-> TRUE])
    /\ cat_i' = cat_i + 1
    /\ trace' = Append(trace, Event("sleep", cat_key))
    /\ UNCHANGED <<io_vars, pc, run_vars, max_page, page_num, enrich_vars>>

\* lines 363-403 for page 1: the fetch succeeds, max_page is read from the
\* document and the elements of page 1 are processed
FetchFirstPageOk ==
    /\ pc = "scrape_all"
    /\ cat_i <= Len(categories_to_scrape)
    /\ cat_key \in DOMAIN cat_map
    /\ \E soup \in PageDocs(cat_key, 1) :
          LET r == ProcessElements(soup.elems, <<>>, {})
          IN  /\ max_page' = GetPaginationInfo(soup)
              /\ all_products' = r.products
              /\ seen_ids' = r.seen
              /\ stream' = ExtractAll(soup.elems)
              /\ fetch_log' = Append(fetch_log,
                     FetchEntry(cat_key, 1, TRUE, ExtractAll(soup.elems),
                                GetPaginationInfo(soup)))
    /\ page_num' = 2
    /\ prev_products' = <<>>
    /\ pc' = "pages"
    /\ UNCHANGED <<io_vars, trace, cat_i, results, run_vars, enrich_vars>>

\* mutant: a failed later page ends the page loop (break for continue)
FetchNextPageFailBreak ==
    /\ pc = "pages"
    /\ page_num <= max_page
    /\ fetch_log' = Append(fetch_log, FetchEntry(cat_key, page_num, FALSE, <<>>, 0))
    /\ page_num' = max_page + 1
    /\ trace' = Append(trace, Event("sleep", cat_key))
    /\ UNCHANGED <<io_vars, pc, cat_i, results, run_vars, all_products, seen_ids, max_page,
                   stream, enrich_vars, prev_products>>

\* lines 384-390: the fetch of a later page fails and the page is skipped
FetchNextPageFail ==
    /\ pc = "pages"
    /\ page_num <= max_page
    /\ fetch_log' = Append(fetch_log, FetchEntry(cat_key, page_num, FALSE, <<>>, 0))
    /\ page_num' = page_num + 1
    /\ trace' = Append(trace, Event("sleep", cat_key))
    /\ UNCHANGED <<io_vars, pc, cat_i, results, run_vars, all_products, seen_ids, max_page,
                   stream, enrich_vars, prev_products>>

\* mutant: max_page is read again from every later page
FetchNextPageOkRederive ==
    /\ pc = "pages"
    /\ page_num <= max_page
    /\ \E soup \in PageDocs(cat_key, page_num) :
          LET r == ProcessElements(soup.elems, all_products, seen_ids)
          IN  /\ all_products' = r.products
              /\ seen_ids' = r.seen
              /\ stream' = stream \o ExtractAll(soup.elems)
              /\ max_page' = GetPaginationInfo(soup)
              /\ fetch_log' = Append(fetch_log,
                     FetchEntry(cat_key, page_num, TRUE, ExtractAll(soup.elems),
                                GetPaginationInfo(soup)))
    /\ page_num' = page_num + 1
    /\ trace' = Append(trace, Event("sleep", cat_key))
    /\ UNCHANGED <<io_vars, pc, cat_i, results, run_vars, enrich_vars, prev_products>>

\* lines 384-403: a later page is fetched and its elements are processed
FetchNextPageOk ==
    /\ pc = "pages"
    /\ page_num <= max_page
    /\ \E soup \in PageDocs(cat_key, page_num) :
          LET r == ProcessElements(soup.elems, all_products, seen_ids)
          IN  /\ all_products' = r.products
              /\ seen_ids' = r.seen
              /\ stream' = stream \o ExtractAll(soup.elems)
              /\ fetch_log' = Append(fetch_log,
                     FetchEntry(cat_key, page_num, TRUE, ExtractAll(soup.elems),
                                GetPaginationInfo(soup)))
    /\ page_num' = page_num + 1
    /\ trace' = Append(trace, Event("sleep", cat_key))
    /\ UNCHANGED <<io_vars, pc, cat_i, results, run_vars, max_page, enrich_vars, prev_products>>

\* lines 405-410: the page loop is over
CrawlDone ==
    /\ pc = "pages"
    /\ page_num > max_page
    /\ prev_products' = all_products
    /\ enriched_products' = <<>>
    /\ batch_i' = 0
    /\ pc' = IF gemini_model /\ all_products # <<>> THEN "enrich" ELSE "calc"
    /\ UNCHANGED <<io_vars, trace, cat_i, results, run_vars, crawl_vars, oracle_log, fetch_log>>

Min(a, b) == IF a < b THEN a ELSE b

\* one call of the oracle: the category, the 0-based offset of the batch, the
\* numbered list of the prompt (line i + 1 names products[i]) and the reply
OracleCall(key, i, products, reply) ==
    [cat |-> key, i |-> i, names |-> [j \in 1..Len(products) |-> products[j].name],
     reply |-> reply]

\* mutant: a batch runs one product into the next batch
BatchOverlapping(products, i) ==
    SubSeq(products, i + 1, Min(i + LLM_BATCH_SIZE + 1, Len(products)))

\* all_products[i:i + LLM_BATCH_SIZE] for the 0-based offset i
Batch(products, i) == SubSeq(products, i + 1, Min(i + LLM_BATCH_SIZE, Len(products)))

\* lines 412-420: one batch is sent to the oracle and its reply applied.
\* The batch holds the very dictionaries of all_products, so the list
\* changes with it.
EnrichBatch ==
    /\ pc = "enrich"
    /\ batch_i < Len(all_products)
    /\ \E reply \in Replies :
          LET batch == EnrichProductsWithLlm(gemini_model, Batch(all_products, batch_i),
                                             reply)
          IN  /\ enriched_products' = enriched_products \o batch
              /\ all_products' =
                     [j \in 1..Len(all_products) |->
                         IF j > batch_i /\ j <= batch_i + Len(batch)
                         THEN batch[j - batch_i] ELSE all_products[j]]
              /\ oracle_log' = Append(oracle_log,
                     OracleCall(cat_key, batch_i, Batch(all_products, batch_i), reply))
    /\ batch_i' = batch_i + LLM_BATCH_SIZE
    /\ trace' = trace \o (IF batch_i + LLM_BATCH_SIZE < Len(all_products)
                          THEN <<Event("oracle", cat_key), Event("sleep", cat_key)>>
                          ELSE <<Event("oracle", cat_key)>>)
    /\ UNCHANGED <<io_vars, pc, cat_i, results, run_vars, seen_ids, max_page, page_num, stream,
                   fetch_log, prev_products>>

\* line 422: all_products = enriched_products
EnrichDone ==
    /\ pc = "enrich"
    /\ batch_i >= Len(all_products)
    /\ all_products' = enriched_products
    /\ pc' = "calc"
    /\ UNCHANGED <<io_vars, trace, cat_i, results, run_vars, seen_ids, max_page, page_num, stream,
                   enrich_vars, fetch_log, prev_products>>

\* the products calculate_price_ratios has written when iteration n raises
RECURSIVE FirstRaising(_, _)
FirstRaising(products, n) ==
    IF CalcRaises(products[n]) THEN n ELSE FirstRaising(products, n + 1)

\* lines 425-426: calculate_price_ratios raises TypeError; nothing catches it
\* in scrape_category, scrape_all or main
CalcRaise ==
    /\ pc = "calc"
    /\ exchange_rate # 0
    /\ AnyCalcRaises(all_products)
    /\ all_products' =
           [j \in 1..Len(all_products) |->
               IF j < FirstRaising(all_products, 1)
               THEN CalcProduct(all_products[j], exchange_rate)
               ELSE all_products[j]]
    /\ pc' = "crashed"
    /\ UNCHANGED <<io_vars, trace, cat_i, results, run_vars, seen_ids, max_page, page_num, stream,
                   enrich_vars, fetch_log, prev_products>>

\* lines 425-434 and 452-457: the ratios are calculated, scrape_category
\* returns and scrape_all stores the result
ScrapeCategoryReturn ==
    /\ pc = "calc"
    /\ ~(exchange_rate # 0 /\ AnyCalcRaises(all_products))
    /\ LET final == IF exchange_rate # 0
                    THEN CalculatePriceRatios(all_products, exchange_rate)
                    ELSE all_products
       IN  /\ all_products' = final
           /\ results' = SetResult(cat_key,
                             [group |-> cat_map[cat_key].group,
                              product_count |-> Len(final),
                              products |-> final, error |-> FALSE])
    /\ cat_i' = cat_i + 1
    /\ pc' = "scrape_all"
    /\ trace' = Append(trace, Event("sleep", cat_key))
    /\ UNCHANGED <<io_vars, run_vars, seen_ids, max_page, page_num, stream, enrich_vars,
                   fetch_log, prev_products>>

\* line 459: return results
ScrapeAllReturn ==
    /\ pc = "scrape_all"
    /\ cat_i > Len(categories_to_scrape)
    /\ pc' = "returned"
    /\ UNCHANGED <<io_vars, trace, cat_i, results, run_vars, crawl_vars, enrich_vars, fetch_log,
                   prev_products>>

(***************************************************************************)
(* save_results and validate_json                                          *)
(***************************************************************************)
\* the keys of a dict in iteration order when they were inserted in the
\* order of seq: a key keeps the place of its first insertion
RECURSIVE InsertionOrder(_, _)
InsertionOrder(seq, seen) ==
    IF seq = <<>> THEN <<>>
    ELSE IF Head(seq) \in seen THEN InsertionOrder(Tail(seq), seen)
    ELSE <<Head(seq)>> \o InsertionOrder(Tail(seq), seen \cup {Head(seq)})

\* the keys of results in the order of results.items()
ResultKeys(res, selection) ==
    InsertionOrder(SelectSeq(selection, LAMBDA k : k \in DOMAIN res), {})

RECURSIVE SumSeq(_)
SumSeq(seq) == IF seq = <<>> THEN 0 ELSE Head(seq) + SumSeq(Tail(seq))

\* lines 470-475: grouped[group][cat_key] = cat_data
Grouped(res) ==
    [g \in {res[k].group : k \in DOMAIN res} |->
        [k \in {k2 \in DOMAIN res : res[k2].group = g} |-> res[k]]]

\* the (group, key) pairs of grouped in the order a nested .items() loop
\* visits them
RECURSIVE GroupedOrderOf(_, _, _)
GroupedOrderOf(groups, res, keys) ==
    IF groups = <<>> THEN <<>>
    ELSE LET mine == SelectSeq(keys, LAMBDA k : res[k].group = Head(groups))
         IN  [n \in 1..Len(mine) |-> [group |-> Head(groups), key |-> mine[n]]]
                 \o GroupedOrderOf(Tail(groups), res, keys)

GroupedOrder(res, keys) ==
    GroupedOrderOf(InsertionOrder([n \in 1..Len(keys) |-> res[keys[n]].group], {}),
                   res, keys)

\* mutant: total_products counts the categories
SaveOutputCountingCategories(res, selection, rate) ==
    LET keys == ResultKeys(res, selection)
    IN  [written |-> TRUE,
         exchange_rate |-> rate,
         total_products |-> Len(keys),
         categories |-> Grouped(res),
         order |-> GroupedOrder(res, keys)]

\* lines 477-483: the output dictionary of save_results
SaveOutput(res, selection, rate) ==
    LET keys == ResultKeys(res, selection)
    IN  [written |-> TRUE,
         exchange_rate |-> rate,
         total_products |-> SumSeq([n \in 1..Len(keys) |-> res[keys[n]].product_count]),
         categories |-> Grouped(res),
         order |-> GroupedOrder(res, keys)]

\* the n-th category a nested .items() loop over file["categories"] visits
CatData(file, n) == file.categories[file.order[n].group][file.order[n].key]

\* lines 513-534: the three counters validate_json prints
ValidateCounts(file) ==
    LET prods(n) == CatData(file, n).products
        count(n, test(_)) == Cardinality({j \in 1..Len(prods(n)) : test(prods(n)[j])})
        cats == 1..Len(file.order)
    IN  [printed |-> TRUE,
         total_products |-> SumSeq([n \in cats |-> Len(prods(n))]),
         enriched_count |->
             SumSeq([n \in cats |-> count(n, LAMBDA q : Truthy(Get(q.manufacturer)))]),
         ratio_count |->
             SumSeq([n \in cats |-> count(n, LAMBDA q : Get(q.price_ratio) # Null)])]

\* line 631: save_results writes the snapshot (the timestamped file and the
\* latest copy have the same content)
SaveResults ==
    /\ pc = "returned"
    /\ export' = SaveOutput(results, categories_to_scrape, exchange_rate)
    /\ pc' = "saved"
    /\ UNCHANGED <<cat_i, results, run_vars, crawl_vars, enrich_vars, fetch_log,
                   prev_products, verified, data, summary, trace>>

\* line 632: validate_json reads the file back and prints its summary; the
\* keys its assertions ask for are in every result of scrape_category
ValidateJson ==
    /\ pc = "saved"
    /\ summary' = ValidateCounts(export)
    /\ pc' = "validated"
    /\ UNCHANGED <<cat_i, results, run_vars, crawl_vars, enrich_vars, fetch_log,
                   prev_products, export, verified, data, trace>>

Next ==
    \/ SkipUnknownCategory
    \/ FetchFirstPageFail
    \/ FetchFirstPageOk
    \/ FetchNextPageFail
    \/ FetchNextPageOk
    \/ CrawlDone
    \/ EnrichBatch
    \/ EnrichDone
    \/ CalcRaise
    \/ ScrapeCategoryReturn
    \/ ScrapeAllReturn
    \/ SaveResults
    \/ ValidateJson

Spec == Init /\ [][Next]_vars

(***************************************************************************)
(* The Price Ratio Calculator on its own: calculate_price_ratios applied   *)
(* to a product list, then applied again (by the scraper's function or by  *)
(* verify_prices.recalculate_ratios)                                       *)
(***************************************************************************)
\* largest local price of the calculator inputs
MaxPrice == 8

\* largest reference price of the calculator inputs
MaxRrp == 2

\* longest product list of the calculator inputs
MaxCalcLen == 1

\* None, every integer int() may return in the range, and the prices of the
\* documented scenarios
CalcPrices == {Null} \cup {Num(n) : n \in -1..MaxPrice} \cup {Num(500), Num(1000)}

\* missing, null, a string, and integers around zero
CalcRrps == {Absent, Null, Str(1)} \cup {Num(n) : n \in -1..MaxRrp} \cup {Num(300)}

\* products as they reach the calculator: never priced, or priced before
CalcProducts ==
    {[RawProduct(1, 1, price) EXCEPT !.manufacturer = Str(1), !.us_rrp_usd = rrp,
                                     !.price_usd = old, !.price_ratio = old] :
        price \in CalcPrices, rrp \in CalcRrps, old \in {Absent, Num(1)}}

CalcInputs == UNION {[1..n -> CalcProducts] : n \in 1..MaxCalcLen}

InitCalc ==
    /\ pc = "calc_input"
    /\ all_products \in CalcInputs
    /\ exchange_rate \in ExchangeRates
    /\ prev_products = <<>>
    /\ categories_to_scrape = <<>>
    /\ cat_i = 1
    /\ results = <<>>
    /\ gemini_model = FALSE
    /\ seen_ids = {}
    /\ max_page = 1
    /\ page_num = 1
    /\ enriched_products = <<>>
    /\ batch_i = 0
    /\ fetch_log = <<>>
    /\ oracle_log = <<>>
    /\ stream = <<>>
    /\ export = NoFile
    /\ verified = NoFile
    /\ data = NoFile
    /\ summary = NoSummary
    /\ trace = <<>>
    /\ product_element = NoElement

calc_frame == <<categories_to_scrape, cat_i, results, exchange_rate, gemini_model,
                seen_ids, max_page, page_num, enriched_products, batch_i, fetch_log,
                oracle_log, stream, io_vars, trace, product_element>>

\* calculate_price_ratios(products, exchange_rate) returns
CalcApply ==
    /\ pc = "calc_input"
    /\ ~AnyCalcRaises(all_products)
    /\ prev_products' = all_products
    /\ all_products' = CalculatePriceRatios(all_products, exchange_rate)
    /\ pc' = "calc_once"
    /\ UNCHANGED calc_frame

\* calculate_price_ratios raises TypeError on a string reference price
CalcApplyRaise ==
    /\ pc = "calc_input"
    /\ AnyCalcRaises(all_products)
    /\ prev_products' = all_products
    /\ all_products' =
           [j \in 1..Len(all_products) |->
               IF j < FirstRaising(all_products, 1)
               THEN CalcProduct(all_products[j], exchange_rate)
               ELSE all_products[j]]
    /\ pc' = "crashed"
    /\ UNCHANGED calc_frame

\* calculate_price_ratios applied to its own output
CalcReapply ==
    /\ pc = "calc_once"
    /\ prev_products' = all_products
    /\ all_products' = CalculatePriceRatios(all_products, exchange_rate)
    /\ pc' = "calc_twice"
    /\ UNCHANGED calc_frame

\* verify_prices.recalculate_ratios applied to the scraper's output
RecalcReapply ==
    /\ pc = "calc_once"
    /\ prev_products' = all_products
    /\ all_products' = RecalculateRatios(all_products, exchange_rate)
    /\ pc' = "recalc_twice"
    /\ UNCHANGED calc_frame

NextCalc == CalcApply \/ CalcApplyRaise \/ CalcReapply \/ RecalcReapply

SpecCalc == InitCalc /\ [][NextCalc]_vars

(***************************************************************************)
(* The Enrichment Batcher on one batch: enrich_products_with_llm applied   *)
(* to a batch for an arbitrary short reply                                 *)
(***************************************************************************)
\* longest batch handed to the batcher here (at most LLM_BATCH_SIZE)
MaxBatchLen == 2

\* most entries in a reply array
MaxEntries == 2

\* the indexes a reply entry may carry: 0, every position of the longest
\* batch, one past it, a string, and no index at all
EntryIndexes == {Num(n) : n \in 0..(MaxBatchLen + 1)} \cup {Str(1), Absent}

\* the entries of a reply: all four fields set, or nulls and missing keys
ReplyEntries ==
    {Entry(idx, Str(1), Str(2), Str(3), Num(4)) : idx \in EntryIndexes}
    \cup {Entry(idx, Null, Absent, Null, Null) : idx \in EntryIndexes}

EnrichReplies ==
    {ReplyRaise, ReplyText, ReplyObject, ReplyOtherFence}
    \cup {Reply(FALSE, fence, "array", items) :
            fence \in {"none", "json"},
            items \in UNION {[1..n -> ReplyEntries] : n \in 0..MaxEntries}}

\* a batch of n products, fresh from the crawler or carrying earlier values
EnrichBatchOf(n, fresh) ==
    [i \in 1..n |->
        IF fresh THEN RawProduct(i, i, Num(10 * i))
        ELSE [RawProduct(i, i, Num(10 * i)) EXCEPT
                 !.manufacturer = Str(9), !.part_number = Str(9),
                 !.description_en = Str(9), !.us_rrp_usd = Num(9)]]

InitEnrich ==
    /\ pc = "enrich_input"
    /\ \E n \in 0..MaxBatchLen, fresh \in BOOLEAN : all_products = EnrichBatchOf(n, fresh)
    /\ gemini_model \in BOOLEAN
    /\ exchange_rate = 2700
    /\ prev_products = <<>>
    /\ categories_to_scrape = <<>>
    /\ cat_i = 1
    /\ results = <<>>
    /\ seen_ids = {}
    /\ max_page = 1
    /\ page_num = 1
    /\ enriched_products = <<>>
    /\ batch_i = 0
    /\ fetch_log = <<>>
    /\ oracle_log = <<>>
    /\ stream = <<>>
    /\ export = NoFile
    /\ verified = NoFile
    /\ data = NoFile
    /\ summary = NoSummary
    /\ trace = <<>>
    /\ product_element = NoElement

enrich_frame == <<categories_to_scrape, cat_i, results, exchange_rate, gemini_model,
                  seen_ids, max_page, page_num, enriched_products, batch_i, fetch_log,
                  stream, io_vars, trace, product_element>>

\* line 157: without a client or without products the input is returned
\* and the oracle is not called
EnrichNoCall ==
    /\ pc = "enrich_input"
    /\ ~gemini_model \/ all_products = <<>>
    /\ prev_products' = all_products
    /\ all_products' = EnrichProductsWithLlm(gemini_model, all_products, ReplyRaise)
    /\ pc' = "enrich_skipped"
    /\ UNCHANGED <<enrich_frame, oracle_log>>

\* lines 160-227: the oracle is called once and its reply applied
EnrichApply ==
    /\ pc = "enrich_input"
    /\ gemini_model /\ all_products # <<>>
    /\ \E reply \in EnrichReplies :
          /\ all_products' = EnrichProductsWithLlm(gemini_model, all_products, reply)
          /\ oracle_log' = <<OracleCall("ssd", 0, all_products, reply)>>
    /\ prev_products' = all_products
    /\ pc' = "enrich_returned"
    /\ UNCHANGED enrich_frame

NextEnrich == EnrichNoCall \/ EnrichApply

SpecEnrich == InitEnrich /\ [][NextEnrich]_vars

(***************************************************************************)
(* The verification pass: verify_prices.main, run on the snapshot that the *)
(* scraper saved                                                           *)
(***************************************************************************)
\* products of the large category beyond one verification batch
VerifyExtra == 2

\* lines 67-84: does the try block of verify_us_prices end in the except
\* clause (the comprehension reads r["index"] and r["us_rrp_usd"])
VerifyFails(reply) ==
    \/ reply.raises
    \/ JsonLoads(reply) # "array"
    \/ \E j \in 1..Len(reply.items) :
           reply.items[j].index = Absent \/ reply.items[j].us_rrp_usd = Absent

\* line 141: idx in updated_prices
InUpdatedPrices(items, idx) == \E j \in 1..Len(items) : items[j].index = Num(idx)

\* line 143: updated_prices[idx]; the comprehension of line 80 keeps the
\* last entry of a key
UpdatedPrices(items, idx) ==
    items[CHOOSE j \in 1..Len(items) :
              /\ items[j].index = Num(idx)
              /\ \A l \in (j + 1)..Len(items) : items[l].index # Num(idx)].us_rrp_usd

\* mutant: the whole entry is written over the product, as the batcher does
VerifyProductAsEnrichment(p, items, idx) ==
    IF InUpdatedPrices(items, idx)
    THEN ApplyEntry(p, [EnrichmentMap(items, idx) EXCEPT
                           !.us_rrp_usd = UpdatedPrices(items, idx)])
    ELSE p

\* lines 141-146: the product at 1-based position idx of the batch
VerifyProduct(p, items, idx) ==
    IF InUpdatedPrices(items, idx) /\ Get(p.us_rrp_usd) # UpdatedPrices(items, idx)
    THEN [p EXCEPT !.us_rrp_usd = UpdatedPrices(items, idx)]
    ELSE p

\* lines 135-146: one batch after the reply was applied
VerifyBatchApply(batch, reply) ==
    IF VerifyFails(reply) THEN batch
    ELSE [j \in 1..Len(batch) |-> VerifyProduct(batch[j], reply.items, j)]

\* an entry of a verification reply: index and us_rrp_usd only
PriceEntry(index, us_rrp_usd) == Entry(index, Absent, Absent, Absent, us_rrp_usd)

\* a valid entry followed by one without "us_rrp_usd"
VerifyReplyNoPrice ==
    Reply(FALSE, "none", "array",
          <<PriceEntry(Num(1), Num(7)), Entry(Num(2), Str(1), Absent, Absent, Absent)>>)

\* new prices, a null, index 1 twice and an index past the batch
VerifyReplyUpdate ==
    Reply(FALSE, "json", "array",
          <<PriceEntry(Num(1), Num(3)), PriceEntry(Num(2), Null),
            PriceEntry(Num(BATCH_SIZE + 1), Num(5)), PriceEntry(Num(1), Num(4))>>)

\* the prices the snapshot already holds for the first products
VerifyReplySame ==
    Reply(FALSE, "none", "array",
          [i \in 1..LLM_BATCH_SIZE |-> PriceEntry(Num(i), Num(i + 1))])

\* prices that come back as strings
VerifyReplyStrPrice ==
    Reply(FALSE, "none", "array",
          <<PriceEntry(Num(1), Str(1)), PriceEntry(Num(3), Str(1))>>)

VerifyReplies ==
    {ReplyRaise, VerifyReplyNoPrice, VerifyReplyUpdate, VerifyReplySame,
     VerifyReplyStrPrice}

\* the error result of scrape_category (lines 369-376)
ErrorResult(key) ==
    [group |-> cat_map[key].group, product_count |-> 0, products |-> <<>>,
     error |-> TRUE]

\* a result of scrape_category with the given products (lines 428-434)
ProductsResult(key, products) ==
    [group |-> cat_map[key].group, product_count |-> Len(products),
     products |-> products, error |-> FALSE]

\* the products of a category of more than BATCH_SIZE products whose first
\* enrichment batch was answered and whose later batches failed
LargeCategory(rate) ==
    CalculatePriceRatios(
        EnrichProductsWithLlm(TRUE,
            [j \in 1..(BATCH_SIZE + VerifyExtra) |-> RawProduct(j, j, Num(8 + j))],
            ReplyFull),
        rate)

\* the products of the single-page category, with and without enrichment
SmallCategory(rate, reply) ==
    CalculatePriceRatios(
        EnrichProductsWithLlm(TRUE, ProcessElements(RamPage.elems, <<>>, {}).products,
                              reply),
        rate)

\* what scrape_all can return for the two categories
ScrapedResults(rate) ==
    {[ssd |-> a, ram |-> b] :
        a \in {ErrorResult("ssd"), ProductsResult("ssd", LargeCategory(rate))},
        b \in {ProductsResult("ram", SmallCategory(rate, reply)) :
                 reply \in {ReplyRaise, ReplyPartial}}}

\* scrape_all has just returned
InitVerify ==
    /\ pc = "returned"
    /\ categories_to_scrape \in CategorySelections
    /\ cat_i = Len(categories_to_scrape) + 1
    /\ exchange_rate \in ExchangeRates
    /\ results \in ScrapedResults(exchange_rate)
    /\ gemini_model = TRUE
    /\ all_products = <<>>
    /\ seen_ids = {}
    /\ max_page = 1
    /\ page_num = 1
    /\ enriched_products = <<>>
    /\ batch_i = 0
    /\ fetch_log = <<>>
    /\ oracle_log = <<>>
    /\ stream = <<>>
    /\ prev_products = <<>>
    /\ export = NoFile
    /\ verified = NoFile
    /\ data = NoFile
    /\ summary = NoSummary
    /\ trace = <<>>
    /\ product_element = NoElement

verify_frame == <<categories_to_scrape, results, exchange_rate, gemini_model, crawl_vars,
                  enriched_products, fetch_log, prev_products, summary,
                  product_element>>

\* the key and the product list of the category the loops of lines 120-122
\* are at
verify_key == data.order[cat_i].key

verify_products == CatData(data, cat_i).products

\* cat_data["products"] of the category at position n, replaced
SetProducts(file, n, products) ==
    [file EXCEPT !.categories[file.order[n].group][file.order[n].key].products = products]

\* products[i:i + BATCH_SIZE] for the 0-based offset i
VerifyBatchOf(products, i) == SubSeq(products, i + 1, Min(i + BATCH_SIZE, Len(products)))

\* lines 110-117: the latest snapshot is loaded; a new run begins
VerifyLoad ==
    /\ pc = "validated"
    /\ export.written
    /\ data' = export
    /\ cat_i' = 1
    /\ batch_i' = 0
    /\ oracle_log' = <<>>
    /\ trace' = <<>>
    /\ pc' = "verify"
    /\ UNCHANGED <<verify_frame, export, verified>>

\* lines 128-151: one batch is sent to the oracle and the prices of its
\* reply are written into the products of the loaded snapshot
VerifyBatch ==
    /\ pc = "verify"
    /\ cat_i <= Len(data.order)
    /\ batch_i < Len(verify_products)
    /\ \E reply \in VerifyReplies :
          LET batch == VerifyBatchApply(VerifyBatchOf(verify_products, batch_i), reply)
          IN  /\ data' = SetProducts(data, cat_i,
                             [j \in 1..Len(verify_products) |->
                                 IF j > batch_i /\ j <= batch_i + Len(batch)
                                 THEN batch[j - batch_i] ELSE verify_products[j]])
              /\ oracle_log' = Append(oracle_log,
                     OracleCall(verify_key, batch_i,
                                VerifyBatchOf(verify_products, batch_i), reply))
    /\ trace' = trace \o (IF batch_i + BATCH_SIZE < Len(verify_products)
                          THEN <<Event("oracle", verify_key), Event("sleep", verify_key)>>
                          ELSE <<Event("oracle", verify_key)>>)
    /\ batch_i' = batch_i + BATCH_SIZE
    /\ UNCHANGED <<pc, cat_i, verify_frame, export, verified>>

\* line 154: recalculate_ratios raises TypeError; nothing catches it in main
VerifyRecalcRaise ==
    /\ pc = "verify"
    /\ cat_i <= Len(data.order)
    /\ batch_i >= Len(verify_products)
    /\ AnyCalcRaises(verify_products)
    /\ data' = SetProducts(data, cat_i,
                   [j \in 1..Len(verify_products) |->
                       IF j < FirstRaising(verify_products, 1)
                       THEN RecalcProduct(verify_products[j], data.exchange_rate)
                       ELSE verify_products[j]])
    /\ pc' = "verify_crashed"
    /\ UNCHANGED <<cat_i, batch_i, oracle_log, trace, verify_frame, export, verified>>

\* line 154: the ratios of the category are recalculated and the loop goes
\* to the next category
VerifyRecalc ==
    /\ pc = "verify"
    /\ cat_i <= Len(data.order)
    /\ batch_i >= Len(verify_products)
    /\ ~AnyCalcRaises(verify_products)
    /\ data' = SetProducts(data, cat_i,
                           RecalculateRatios(verify_products, data.exchange_rate))
    /\ trace' = Append(trace, Event("recalc", verify_key))
    /\ cat_i' = cat_i + 1
    /\ batch_i' = 0
    /\ UNCHANGED <<pc, oracle_log, verify_frame, export, verified>>

\* lines 157-159: ivory_products_verified.json is written
VerifyWriteVerified ==
    /\ pc = "verify"
    /\ cat_i > Len(data.order)
    /\ verified' = data
    /\ pc' = "verify_saved"
    /\ UNCHANGED <<cat_i, batch_i, oracle_log, trace, verify_frame, export, data>>

\* lines 165-167: ivory_products_latest.json is overwritten
VerifyUpdateLatest ==
    /\ pc = "verify_saved"
    /\ export' = data
    /\ pc' = "verify_end"
    /\ UNCHANGED <<cat_i, batch_i, oracle_log, trace, verify_frame, verified, data>>

NextVerify ==
    \/ SaveResults
    \/ ValidateJson
    \/ VerifyLoad
    \/ VerifyBatch
    \/ VerifyRecalcRaise
    \/ VerifyRecalc
    \/ VerifyWriteVerified
    \/ VerifyUpdateLatest

SpecVerify == InitVerify /\ [][NextVerify]_vars

(***************************************************************************)
(* extract_product_data on its own: one product element with a sequence of *)
(* span.price nodes                                                        *)
(***************************************************************************)
\* most span.price nodes in one element
MaxNodes == 3

\* the texts of a price node: two integers and a text int() rejects
PriceTexts == {Num(5), Num(7), Str(1)}

PriceNodes == {PriceNode(eilat, text) : eilat \in BOOLEAN, text \in PriceTexts}

\* elements with an anchor and an id, without an anchor, and with an empty id
ExtractInputs ==
    {Element(anchor, id, 1, prices) :
        anchor \in BOOLEAN, id \in {0, 1},
        prices \in UNION {[1..n -> PriceNodes] : n \in 0..MaxNodes}}

InitExtract ==
    /\ pc = "extract_input"
    /\ product_element \in ExtractInputs
    /\ categories_to_scrape = <<>>
    /\ cat_i = 1
    /\ results = <<>>
    /\ exchange_rate = 2700
    /\ gemini_model = FALSE
    /\ all_products = <<>>
    /\ seen_ids = {}
    /\ max_page = 1
    /\ page_num = 1
    /\ enriched_products = <<>>
    /\ batch_i = 0
    /\ fetch_log = <<>>
    /\ oracle_log = <<>>
    /\ stream = <<>>
    /\ prev_products = <<>>
    /\ export = NoFile
    /\ verified = NoFile
    /\ data = NoFile
    /\ summary = NoSummary
    /\ trace = <<>>

extract_frame == <<cat_i, results, run_vars, seen_ids, max_page, page_num, enrich_vars,
                   fetch_log, stream, prev_products, io_vars, trace>>

\* lines 255-256 and 307-308: without an anchor or with an empty id the
\* extractor returns None
ExtractReturnsNone ==
    /\ pc = "extract_input"
    /\ ExtractProductData(product_element) = <<>>
    /\ all_products' = <<>>
    /\ pc' = "extract_none"
    /\ UNCHANGED extract_frame

\* lines 250-317: the extractor returns a product
ExtractReturnsProduct ==
    /\ pc = "extract_input"
    /\ ExtractProductData(product_element) # <<>>
    /\ all_products' = ExtractProductData(product_element)
    /\ pc' = "extract_returned"
    /\ UNCHANGED extract_frame

NextExtract == ExtractReturnsNone \/ ExtractReturnsProduct

SpecExtract == InitExtract /\ [][NextExtract]_vars

(***************************************************************************)
(* Properties of the Price Ratio Calculator (checked under SpecCalc)       *)
(***************************************************************************)
CalcReturned == pc \in {"calc_once", "calc_twice", "recalc_twice"}

\* C2: after calculate_price_ratios, every product whose price holds an
\* integer has price_usd = round(price * exchange_rate, 2); price_usd is
\* never absent when price is present.
C2_PriceUsdFromEveryIntegerPrice ==
    CalcReturned =>
        \A i \in 1..Len(all_products) :
            all_products[i].price.k = "num" =>
                all_products[i].price_usd =
                    Num(RoundHalfEven(all_products[i].price.v * exchange_rate, 100))

\* C3: for every product with price present and us_rrp_usd present and
\* strictly positive, the stored price_ratio equals
\* round(price_usd / us_rrp_usd, 2) taken from the stored, already rounded
\* price_usd.
C3_RatioFromStoredPriceUsd ==
    CalcReturned =>
        \A i \in 1..Len(all_products) :
            (/\ all_products[i].price.k = "num"
             /\ all_products[i].us_rrp_usd.k = "num"
             /\ all_products[i].us_rrp_usd.v > 0) =>
                /\ all_products[i].price_usd.k = "num"
                /\ all_products[i].price_ratio =
                       Num(RoundHalfEven(all_products[i].price_usd.v,
                                         all_products[i].us_rrp_usd.v))

\* C4: after calculate_price_ratios, a product without a price has neither
\* price_usd nor price_ratio, and a product whose us_rrp_usd is missing, null
\* or <= 0 has no price_ratio, whatever its price.
C4_AbsentInputsGiveAbsentOutputs ==
    CalcReturned =>
        \A i \in 1..Len(all_products) :
            /\ Get(all_products[i].price) = Null =>
                   /\ all_products[i].price_usd = Null
                   /\ all_products[i].price_ratio = Null
            /\ (\/ Get(all_products[i].us_rrp_usd) = Null
                \/ /\ all_products[i].us_rrp_usd.k = "num"
                   /\ all_products[i].us_rrp_usd.v <= 0) =>
                   all_products[i].price_ratio = Null

\* a product priced before loses its stale ratio when its reference price
\* is negative, while its price_usd is still computed
C4_Witness ==
    /\ pc = "calc_once"
    /\ \E i \in 1..Len(all_products) :
          /\ all_products[i].price = Num(MaxPrice)
          /\ all_products[i].us_rrp_usd = Num(-1)
          /\ prev_products[i].price_ratio = Num(1)
          /\ all_products[i].price_ratio = Null
          /\ all_products[i].price_usd.k = "num"

\* the fields the calculator must not touch
CalcFrame(p) == [p EXCEPT !.price_usd = Absent, !.price_ratio = Absent]

\* C5: applying the calculation a second time (calculate_price_ratios or
\* recalculate_ratios) with the same exchange rate leaves every product
\* exactly as the first application left it, and no application changes a
\* field other than price_usd and price_ratio.
C5_CalculationIdempotent ==
    /\ pc \in {"calc_twice", "recalc_twice"} => all_products = prev_products
    /\ CalcReturned =>
           /\ Len(all_products) = Len(prev_products)
           /\ \A i \in 1..Len(all_products) :
                  CalcFrame(all_products[i]) = CalcFrame(prev_products[i])

\* the verification pass's function re-applied to a product that has a ratio
C5_Witness ==
    /\ pc = "recalc_twice"
    /\ \E i \in 1..Len(all_products) :
          /\ all_products[i].price = Num(1000)
          /\ all_products[i].us_rrp_usd = Num(300)
          /\ exchange_rate = 2700
          /\ all_products[i].price_usd = Num(27000)
          /\ all_products[i].price_ratio = Num(90)

(***************************************************************************)
(* Properties of the category crawl (checked under Spec)                   *)
(***************************************************************************)
\* the fetch_page calls made for one category, in call order
CatLog(key) == SelectSeq(fetch_log, LAMBDA e : e.cat = key)

\* the oracle calls made for one category, in call order
CatOracleLog(key) == SelectSeq(oracle_log, LAMBDA e : e.cat = key)

\* what the extractor produced on the pages of a log, in page order
RECURSIVE Extracted(_)
Extracted(log) ==
    IF log = <<>> THEN <<>> ELSE Head(log).extracted \o Extracted(Tail(log))

\* the positions of a stream that hold the first copy of their id
FirstCopies(s) == {j \in 1..Len(s) : \A l \in 1..(j - 1) : s[l].id # s[j].id}

\* the fields the extractor set
Raw(p) == <<p.id, p.name, p.price>>

\* products is the stream s with every later copy of an id removed: its
\* n-th product is the first copy that has n - 1 first copies before it
IsFirstCopiesOf(products, s) ==
    LET fc == FirstCopies(s)
    IN  /\ Len(products) = Cardinality(fc)
        /\ \A n \in 1..Len(products) :
               \E j \in fc :
                   /\ Cardinality({l \in fc : l < j}) = n - 1
                   /\ Raw(products[n]) = Raw(s[j])

\* C1: in every result of scrape_category, the error result included,
\* product_count is the length of products and no two products share an id.
C1_CountAndDistinctIds ==
    \A key \in DOMAIN results :
        /\ results[key].product_count = Len(results[key].products)
        /\ \A i, j \in 1..Len(results[key].products) :
               results[key].products[i].id = results[key].products[j].id => i = j

\* a run that returned an error result and a result of more than
\* LLM_BATCH_SIZE products crawled from pages that repeat ids
C1_Witness ==
    /\ pc = "returned"
    /\ \E k1, k2 \in DOMAIN results :
          /\ results[k1].error
          /\ results[k1].product_count = 0
          /\ results[k2].product_count > LLM_BATCH_SIZE
          /\ Len(Extracted(CatLog(k2))) > results[k2].product_count

\* C6: an id extracted more than once in a category crawl is stored once,
\* at the position and with the field values of its first extraction.
C6_FirstExtractionWins ==
    /\ \A j \in 1..Len(stream) :
           Cardinality({i \in 1..Len(all_products) : all_products[i].id = stream[j].id}) = 1
    /\ IsFirstCopiesOf(all_products, stream)
    /\ \A key \in DOMAIN results :
           ~results[key].error =>
               IsFirstCopiesOf(results[key].products, Extracted(CatLog(key)))

\* an id repeated on one page with another name and price, and an id
\* repeated on the next page
C6_Witness ==
    /\ pc = "returned"
    /\ \E j1, j2 \in 1..Len(stream) :
          /\ j1 < j2
          /\ stream[j1].id = stream[j2].id
          /\ stream[j1].name # stream[j2].name
          /\ stream[j1].price # stream[j2].price
    /\ \E key \in DOMAIN results :
          \E e1, e2 \in 1..Len(CatLog(key)) :
              /\ e1 < e2
              /\ \E a \in 1..Len(CatLog(key)[e1].extracted),
                    b \in 1..Len(CatLog(key)[e2].extracted) :
                     CatLog(key)[e1].extracted[a].id = CatLog(key)[e2].extracted[b].id

\* C7: when page 1 was fetched and a later page failed, every page up to
\* the max_page read from page 1 was still requested, in order, and the
\* result carries no error marker and holds exactly the de-duplicated
\* products of the pages that were fetched, in page order.
C7_FailedPageIsSkipped ==
    \A key \in DOMAIN results :
        LET log == CatLog(key)
        IN  (/\ log[1].ok
             /\ \E n \in 2..Len(log) : ~log[n].ok) =>
                /\ Len(log) = log[1].max_page
                /\ \A n \in 1..Len(log) : log[n].page = n
                /\ \A n \in 1..Len(log) : ~log[n].ok => log[n].extracted = <<>>
                /\ ~results[key].error
                /\ IsFirstCopiesOf(results[key].products,
                                   Extracted(SelectSeq(log, LAMBDA e : e.ok)))

\* a page failed, the page after it was fetched and its products are in
\* the result
C7_Witness ==
    \E key \in DOMAIN results :
        LET log == CatLog(key)
        IN  \E n \in 2..(Len(log) - 1) :
                /\ log[1].ok /\ ~log[n].ok /\ log[n + 1].ok
                /\ log[n + 1].extracted # <<>>
                /\ \E i \in 1..Len(results[key].products) :
                       Raw(results[key].products[i]) =
                           Raw(log[n + 1].extracted[Len(log[n + 1].extracted)])

\* C8: a failed first page gives, after that one fetch and without any
\* oracle call, a result with no products, product_count 0 and the error
\* marker; scrape_all then continues with the remaining selected categories.
C8_FirstPageFailureIsTerminal ==
    /\ \A key \in DOMAIN results :
           ~CatLog(key)[1].ok =>
               /\ Len(CatLog(key)) = 1
               /\ CatOracleLog(key) = <<>>
               /\ results[key].error
               /\ results[key].product_count = 0
               /\ results[key].products = <<>>
    /\ \A e \in 1..Len(fetch_log) :
           (fetch_log[e].page = 1 /\ ~fetch_log[e].ok /\ e < Len(fetch_log)) =>
               fetch_log[e + 1].cat # fetch_log[e].cat
    /\ pc = "returned" =>
           \A n \in 1..Len(categories_to_scrape) :
               categories_to_scrape[n] \in DOMAIN cat_map =>
                   categories_to_scrape[n] \in DOMAIN results

\* the first selected category failed on page 1 and the one after it was
\* crawled and enriched
C8_Witness ==
    /\ pc = "returned"
    /\ ~fetch_log[1].ok
    /\ results[categories_to_scrape[1]].error
    /\ \E key \in DOMAIN results :
          /\ results[key].product_count > 0
          /\ CatOracleLog(key) # <<>>

(***************************************************************************)
(* Properties of the Enrichment Batcher                                    *)
(***************************************************************************)
\* the oracle call raised, or its text is not JSON, or the JSON is not an
\* array of objects that all carry an index
ProtocolFailure(reply) ==
    \/ reply.raises
    \/ reply.fence = "other"
    \/ reply.body \in {"invalid", "object"}
    \/ \E j \in 1..Len(reply.items) : reply.items[j].index.k = "absent"

\* the reply has an entry for 1-based position n of its batch
Referenced(reply, n) == \E j \in 1..Len(reply.items) : reply.items[j].index = Num(n)

\* the positions of all_products that the batch at offset i covers
BatchRange(i) == {j \in 1..Len(all_products) : i < j /\ j <= i + LLM_BATCH_SIZE}

\* C9: a batch whose oracle call raised or whose reply is not a decodable,
\* well-shaped JSON array leaves each of its products exactly as it was; the
\* batches after it are still submitted, one call per batch in order, and
\* the products their replies refer to are enriched (checked under Spec).
C9_FailedBatchLeftUnchanged ==
    pc \in {"enrich", "calc"} =>
        LET log == CatOracleLog(cat_key)
        IN  /\ \A n \in 1..Len(log) : log[n].i = (n - 1) * LLM_BATCH_SIZE
            /\ \A n \in 1..Len(log) :
                   ProtocolFailure(log[n].reply) =>
                       \A j \in BatchRange(log[n].i) : all_products[j] = prev_products[j]
            /\ \A n \in 1..Len(log) :
                   ~ProtocolFailure(log[n].reply) =>
                       \A j \in BatchRange(log[n].i) :
                           Referenced(log[n].reply, j - log[n].i) =>
                               /\ all_products[j].manufacturer # Absent
                               /\ all_products[j].us_rrp_usd # Absent
            /\ (pc = "calc" /\ gemini_model) =>
                   Len(log) * LLM_BATCH_SIZE >= Len(all_products)

\* the first batch got a reply without an index on one entry, the second
\* batch was enriched
C9_Witness ==
    /\ pc = "calc"
    /\ Len(CatOracleLog(cat_key)) = 2
    /\ CatOracleLog(cat_key)[1].reply = ReplyNoIndex
    /\ CatOracleLog(cat_key)[2].reply = ReplyFull
    /\ \A j \in 1..LLM_BATCH_SIZE : all_products[j].manufacturer = Absent
    /\ all_products[LLM_BATCH_SIZE + 1].manufacturer = Str(1)

\* the reply of the single call observed under SpecEnrich
TheReply == oracle_log[1].reply

\* C10: for a well-formed reply to a batch, the product at position i is
\* modified exactly when an entry carries index i, and then takes its four
\* enrichment values from such an entry; entries with an index outside the
\* batch change nothing and raise nothing; products no entry refers to keep
\* every value they had (checked under SpecEnrich).
C10_MatchedByPositionOnly ==
    (pc = "enrich_returned" /\ ~ProtocolFailure(TheReply)) =>
        /\ Len(all_products) = Len(prev_products)
        /\ \A i \in 1..Len(all_products) :
               IF Referenced(TheReply, i)
               THEN /\ all_products[i] # prev_products[i]
                    /\ \E j \in 1..Len(TheReply.items) :
                           /\ TheReply.items[j].index = Num(i)
                           /\ all_products[i] =
                                  [prev_products[i] EXCEPT
                                      !.manufacturer = Get(TheReply.items[j].manufacturer),
                                      !.part_number = Get(TheReply.items[j].part_number),
                                      !.description_en = Get(TheReply.items[j].description_en),
                                      !.us_rrp_usd = Get(TheReply.items[j].us_rrp_usd)]
               ELSE all_products[i] = prev_products[i]

\* a batch of two products answered with entries for index 3 and index 1:
\* the first product is enriched, the second is untouched
C10_Witness ==
    /\ pc = "enrich_returned"
    /\ ~ProtocolFailure(TheReply)
    /\ Len(prev_products) = 2
    /\ Referenced(TheReply, 3)
    /\ Referenced(TheReply, 1)
    /\ prev_products[1].manufacturer = Absent
    /\ all_products[1].manufacturer = Str(1)
    /\ all_products[2] = prev_products[2]

(***************************************************************************)
(* Properties of pagination (checked under Spec)                           *)
(***************************************************************************)
\* C17: after a successful fetch of page 1 the crawl asks for page n in its
\* n-th fetch (so pages 2..max_page in increasing order, each once, page 1
\* never again), the bound in use is the max_page (>= 1) read from page 1
\* whatever the later pages advertise, and a finished crawl has made exactly
\* max_page fetches.
C17_PagesOneToMaxPageOnce ==
    /\ \A key \in DOMAIN cat_map :
           LET log == CatLog(key)
           IN  (log # <<>> /\ log[1].ok) =>
                   /\ log[1].max_page >= 1
                   /\ Len(log) <= log[1].max_page
                   /\ \A n \in 1..Len(log) : log[n].page = n
                   /\ key \in DOMAIN results => Len(log) = log[1].max_page
    /\ pc = "pages" => max_page = CatLog(cat_key)[1].max_page
    /\ pc \in {"enrich", "calc"} => Len(CatLog(cat_key)) = max_page

\* a finished crawl of several pages where one later page advertised more
\* pages than page 1 and another advertised fewer
C17_Witness ==
    \E key \in DOMAIN results :
        LET log == CatLog(key)
        IN  /\ log[1].ok
            /\ Len(log) >= 3
            /\ \E n, m \in 2..Len(log) :
                   /\ log[n].ok /\ log[n].max_page > log[1].max_page
                   /\ log[m].ok /\ log[m].max_page < log[1].max_page

(***************************************************************************)
(* Properties of the batch loop (checked under Spec)                       *)
(***************************************************************************)
\* C19: when the enrichment stage has run over the n crawled products, the
\* oracle was called ceil(n / LLM_BATCH_SIZE) times for the category; the
\* b-th call carried the products at offsets (b-1)*LLM_BATCH_SIZE .. of the
\* crawled list, at most LLM_BATCH_SIZE of them, listed in order from
\* position 1; and the stage's output has the ids of its input in the same
\* order and the same length, whatever the replies were.
C19_BatchesPartitionTheProducts ==
    (pc \in {"calc", "crashed"} /\ gemini_model /\ prev_products # <<>>) =>
        LET n == Len(prev_products)
            log == CatOracleLog(cat_key)
        IN  /\ Len(log) = (n + LLM_BATCH_SIZE - 1) \div LLM_BATCH_SIZE
            /\ \A b \in 1..Len(log) :
                   LET i == (b - 1) * LLM_BATCH_SIZE
                   IN  /\ log[b].i = i
                       /\ Len(log[b].names) = Min(LLM_BATCH_SIZE, n - i)
                       /\ \A j \in 1..Len(log[b].names) :
                              log[b].names[j] = prev_products[i + j].name
            /\ Len(all_products) = n
            /\ \A j \in 1..n : all_products[j].id = prev_products[j].id

\* a category of more than one batch whose last batch is short, with one
\* reply that failed and one that was applied
C19_Witness ==
    /\ pc = "calc"
    /\ gemini_model
    /\ Len(prev_products) > LLM_BATCH_SIZE
    /\ Len(prev_products) % LLM_BATCH_SIZE # 0
    /\ \E b1, b2 \in 1..Len(CatOracleLog(cat_key)) :
          /\ ReplyFails(CatOracleLog(cat_key)[b1].reply)
          /\ ~ReplyFails(CatOracleLog(cat_key)[b2].reply)
    /\ all_products # prev_products

(***************************************************************************)
(* Duplicate indexes in one reply (checked under SpecEnrich)               *)
(***************************************************************************)
\* the place in the reply of the last entry that carries index n
LastEntryFor(reply, n) ==
    CHOOSE j \in 1..Len(reply.items) :
        /\ reply.items[j].index = Num(n)
        /\ \A l \in 1..Len(reply.items) : reply.items[l].index = Num(n) => l <= j

\* C20: when a well-formed reply has one or more entries for position i of
\* the batch, the call returns and the product at position i has all four
\* enrichment fields from the entry that comes last in the reply; no field
\* is left from an earlier entry of the same index.
C20_LastDuplicateWins ==
    (pc = "enrich_returned" /\ ~ProtocolFailure(TheReply)) =>
        \A i \in 1..Len(all_products) :
            Referenced(TheReply, i) =>
                LET e == TheReply.items[LastEntryFor(TheReply, i)]
                IN  /\ all_products[i].manufacturer = Get(e.manufacturer)
                    /\ all_products[i].part_number = Get(e.part_number)
                    /\ all_products[i].description_en = Get(e.description_en)
                    /\ all_products[i].us_rrp_usd = Get(e.us_rrp_usd)

\* a reply whose two entries both carry index 1 with different values: the
\* product shows the values of the second
C20_Witness ==
    /\ pc = "enrich_returned"
    /\ ~ProtocolFailure(TheReply)
    /\ Len(TheReply.items) = 2
    /\ TheReply.items[1].index = Num(1)
    /\ TheReply.items[2].index = Num(1)
    /\ TheReply.items[1].manufacturer = Str(1)
    /\ TheReply.items[2].manufacturer = Null
    /\ all_products[1].manufacturer = Null
    /\ all_products[1].us_rrp_usd = Null

(***************************************************************************)
(* Oracle replies and the end of the scraper run (checked under Spec)      *)
(***************************************************************************)
\* C14: no oracle reply halts the scraper run: whatever the oracle
\* answered, scrape_category is never left by an exception, so the run goes
\* on to the remaining categories and to the export.
C14_NoOracleReplyHaltsTheRun ==
    ~(/\ pc = "crashed"
      /\ oracle_log # <<>>
      /\ export = NoFile)

(***************************************************************************)
(* The summary of validate_json (checked under Spec)                       *)
(***************************************************************************)
\* the product records of the export, as (group, key, position) triples
ExportRecords(file) ==
    UNION {UNION {{<<g, k, j>> : j \in 1..Len(file.categories[g][k].products)} :
                     k \in DOMAIN file.categories[g]} :
              g \in DOMAIN file.categories}

\* the products an oracle response entry was applied to: the positions a
\* reply without protocol failure refers to, inside the batch it answers
AppliedTo ==
    {<<oracle_log[n].cat, oracle_log[n].i + j>> :
        <<n, j>> \in {<<n2, j2>> \in (1..Len(oracle_log)) \X (1..LLM_BATCH_SIZE) :
                        /\ j2 <= Len(oracle_log[n2].names)
                        /\ ~ProtocolFailure(oracle_log[n2].reply)
                        /\ Referenced(oracle_log[n2].reply, j2)}}

\* the three counts of the summary are the counts of the data
SummaryTotalReconciles ==
    summary.total_products = Cardinality(ExportRecords(export))

SummaryRatioReconciles ==
    summary.ratio_count =
        Cardinality({r \in ExportRecords(export) :
                        export.categories[r[1]][r[2]].products[r[3]].price_ratio.k = "num"})

SummaryEnrichedReconciles ==
    summary.enriched_count = Cardinality(AppliedTo)

\* C16: the summary validate_json prints reconciles with the data: its
\* total is the number of product records of the export, its enrichment
\* count is the number of products an oracle response entry was applied to,
\* and its ratio count is the number of products that have a price_ratio.
C16_SummaryReconciles ==
    pc = "validated" =>
        /\ SummaryTotalReconciles
        /\ SummaryEnrichedReconciles
        /\ SummaryRatioReconciles

(***************************************************************************)
(* Properties of the verification pass (checked under SpecVerify)          *)
(***************************************************************************)
\* the fields of a product the verification pass has no business with
Untouched(p) == <<p.id, p.name, p.price, p.manufacturer, p.part_number, p.description_en>>

\* file now differs from file before at most in the us_rrp_usd, price_usd
\* and price_ratio of products: same groups, categories and order, same
\* product_count, and the same products at the same places
SameButPrices(now, before) ==
    /\ now.written
    /\ now.order = before.order
    /\ now.total_products = before.total_products
    /\ now.exchange_rate = before.exchange_rate
    /\ DOMAIN now.categories = DOMAIN before.categories
    /\ \A g \in DOMAIN before.categories :
           /\ DOMAIN now.categories[g] = DOMAIN before.categories[g]
           /\ \A k \in DOMAIN before.categories[g] :
                  LET c == now.categories[g][k]
                      b == before.categories[g][k]
                  IN  /\ c.product_count = b.product_count
                      /\ c.group = b.group
                      /\ c.error = b.error
                      /\ Len(c.products) = Len(b.products)
                      /\ \A j \in 1..Len(b.products) :
                             Untouched(c.products[j]) = Untouched(b.products[j])

\* C11: whatever the oracle replied, the snapshot in the memory of the
\* verification pass and the verified file it writes differ from the
\* snapshot it loaded only in us_rrp_usd, price_usd and price_ratio: no
\* product is added, removed or moved and no product_count changes.
C11_OnlyPricesChange ==
    /\ pc \in {"verify", "verify_crashed", "verify_saved"} => SameButPrices(data, export)
    /\ pc = "verify_saved" => SameButPrices(verified, export)

\* a verified file is written in which a product has a new us_rrp_usd and
\* a new price_ratio, in a category of more than one batch
C11_Witness ==
    /\ pc = "verify_saved"
    /\ \E g \in DOMAIN export.categories :
          \E k \in DOMAIN export.categories[g] :
              /\ Len(export.categories[g][k].products) > BATCH_SIZE
              /\ \E j \in 1..Len(export.categories[g][k].products) :
                     /\ verified.categories[g][k].products[j].us_rrp_usd
                            # export.categories[g][k].products[j].us_rrp_usd
                     /\ verified.categories[g][k].products[j].price_ratio
                            # export.categories[g][k].products[j].price_ratio
                     /\ verified.categories[g][k].products[j].manufacturer # Absent

\* the running verification pass, or one that has ended
InVerify == pc \in {"verify", "verify_crashed", "verify_saved", "verify_end"}

\* the places of trace where the oracle was called for a category
OracleEvents(key) == {n \in 1..Len(trace) : trace[n] = Event("oracle", key)}

\* the products of a category of the loaded snapshot
DataProducts(key) == data.categories[cat_map[key].group][key].products

\* C12: recalculate_ratios runs for a category only when every batch of the
\* category has been sent and applied (ceil(n / BATCH_SIZE) oracle calls
\* before it, none after it), and once it has run every product of the
\* category, updated or not, carries the price_usd and price_ratio that
\* calculate_price_ratios gives for its price, its us_rrp_usd and the
\* exchange rate of the snapshot.
C12_RecalculatedAfterAllBatches ==
    InVerify =>
        /\ \A n \in 1..Len(trace) :
               trace[n].ev = "recalc" =>
                   LET key == trace[n].cat
                   IN  /\ Cardinality({m \in OracleEvents(key) : m < n}) =
                              (Len(DataProducts(key)) + BATCH_SIZE - 1) \div BATCH_SIZE
                       /\ \A m \in OracleEvents(key) : m < n
        /\ \A n \in 1..Len(data.order) :
               n < cat_i =>
                   /\ \E m \in 1..Len(trace) : trace[m] = Event("recalc", data.order[n].key)
                   /\ \A j \in 1..Len(CatData(data, n).products) :
                          LET p == CatData(data, n).products[j]
                          IN  /\ p.price_usd = CalcProduct(p, data.exchange_rate).price_usd
                              /\ p.price_ratio = CalcProduct(p, data.exchange_rate).price_ratio

\* a category of two batches is recalculated after a reply changed the
\* reference price of one product and left another as it was
C12_Witness ==
    /\ pc = "verify"
    /\ cat_i > 1
    /\ Len(CatData(data, cat_i - 1).products) > BATCH_SIZE
    /\ Cardinality(OracleEvents(data.order[cat_i - 1].key)) = 2
    /\ \E j1, j2 \in 1..Len(CatData(data, cat_i - 1).products) :
          /\ CatData(data, cat_i - 1).products[j1].us_rrp_usd
                 # CatData(export, cat_i - 1).products[j1].us_rrp_usd
          /\ CatData(data, cat_i - 1).products[j1].price_ratio
                 # CatData(export, cat_i - 1).products[j1].price_ratio
          /\ CatData(data, cat_i - 1).products[j2].us_rrp_usd
                 = CatData(export, cat_i - 1).products[j2].us_rrp_usd
          /\ CatData(data, cat_i - 1).products[j2].price_ratio.k = "num"

\* the categories of a file as (group, key) pairs
FileCategories(file) ==
    UNION {{<<g, k>> : k \in DOMAIN file.categories[g]} : g \in DOMAIN file.categories}

\* the sum of product_count over a set of categories of a file
RECURSIVE SumProductCount(_, _)
SumProductCount(file, cats) ==
    IF cats = {} THEN 0
    ELSE LET c == CHOOSE x \in cats : TRUE
         IN  file.categories[c[1]][c[2]].product_count
                 + SumProductCount(file, cats \ {c})

TotalReconciles(file) ==
    file.written =>
        /\ file.total_products = SumProductCount(file, FileCategories(file))
        /\ file.total_products = Cardinality(ExportRecords(file))

\* C13: in the snapshot save_results writes, and in the verified and latest
\* files the verification pass writes, total_products is the sum of
\* product_count over all categories of all groups and is the number of
\* product records in the file.
C13_TotalIsSumOfCounts ==
    /\ TotalReconciles(export)
    /\ TotalReconciles(verified)

\* the verification pass has rewritten the latest file with changed
\* products; two groups hold products, one of them more than a batch
C13_Witness ==
    /\ pc = "verify_end"
    /\ export = verified
    /\ export # SaveOutput(results, categories_to_scrape, exchange_rate)
    /\ Cardinality({c \in FileCategories(export) :
                       export.categories[c[1]][c[2]].product_count > 0}) = 2
    /\ export.total_products > BATCH_SIZE + 1

\* C15: a failure while one category is verified does not block the others:
\* when the pass has stopped, every category of the snapshot has been
\* through recalculate_ratios and the verified snapshot is written.
C15_FailureDoesNotBlockOthers ==
    pc \in {"verify_crashed", "verify_end"} =>
        /\ \A n \in 1..Len(data.order) :
               \E m \in 1..Len(trace) : trace[m] = Event("recalc", data.order[n].key)
        /\ verified.written

\* C18: between any two oracle calls of a run there is a blocking pause.
C18_PauseBetweenOracleCalls ==
    \A n, m \in 1..Len(trace) :
        (n < m /\ trace[n].ev = "oracle" /\ trace[m].ev = "oracle") =>
            \E l \in (n + 1)..(m - 1) : trace[l].ev = "sleep"

(***************************************************************************)
(* Properties of price resolution (checked under SpecExtract)              *)
(***************************************************************************)
\* the places of the price nodes of the element that carry class
\* eilatprice neither on themselves nor on an ancestor
NonExcluded ==
    {n \in 1..Len(product_element.prices) : ~product_element.prices[n].eilat}

\* of those, the places whose text is an integer
Parsable == {n \in NonExcluded : product_element.prices[n].text.k = "num"}

\* the first place of a non-empty set of places
First(S) == CHOOSE n \in S : \A m \in S : n <= m

\* C21: the extracted price is the value of the first price node in
\* document order that is not excluded, and it is absent when every node is
\* excluded.
C21_FirstNonExcludedNodeWins ==
    pc = "extract_returned" =>
        IF NonExcluded = {} THEN all_products[1].price = Null
        ELSE all_products[1].price = product_element.prices[First(NonExcluded)].text

\* C21, amended: the extracted price is the integer of the first price node
\* in document order that is not excluded and whose text is an integer; a
\* non-excluded node whose text is not an integer is passed over, an
\* excluded node is never the source, and the price is absent when no
\* non-excluded node holds an integer.
C21_FirstParsableNonExcludedNodeWins ==
    pc = "extract_returned" =>
        IF Parsable = {} THEN all_products[1].price = Null
        ELSE all_products[1].price = product_element.prices[First(Parsable)].text

\* an excluded node with an integer, then a non-excluded node without one,
\* then a non-excluded node whose integer becomes the price
C21_Witness ==
    /\ pc = "extract_returned"
    /\ Len(product_element.prices) = 3
    /\ product_element.prices[1] = PriceNode(TRUE, Num(5))
    /\ product_element.prices[2] = PriceNode(FALSE, Str(1))
    /\ product_element.prices[3] = PriceNode(FALSE, Num(7))
    /\ all_products[1].price = Num(7)

====
